---------------------------- MODULE Spec2Model ----------------------------
(***************************************************************************)
(* Model of lexical.py: the regex-driven tokenizer `tokenize`.             *)
(*                                                                         *)
(* An input text is a sequence of characters; a character is a one-element *)
(* string, the characters that need an escape being named (LF, TAB,        *)
(* CR, QUOTE, BSLASH).  Offsets are 0-based as in Python: the character at *)
(* offset p of s is s[p + 1].                                              *)
(*                                                                         *)
(* One action models one iteration of the `while mo is not None` loop, one *)
(* action per branch of the dispatch on `kind`, plus the final EOF yield.  *)
(***************************************************************************)
EXTENDS Integers, Sequences, FiniteSets

VARIABLES code, pos, line, line_start, tokens, pc, err, starts, log

vars == <<code, pos, line, line_start, tokens, pc, err, starts, log>>

---------------------------------------------------------------------------
(* Characters and character classes of TOKEN_SPECIFICATION *)

LF == "LF"
TAB == "TAB"
CR == "CR"
SP == " "
QUOTE == "QUOTE"
BSLASH == "BSLASH"
\* a representative of the non-ASCII word characters \w matches in a str pattern
UWORD == "UWORD"

\* \d (the ASCII digits; the model's inputs hold no other digit)
Digit == {"0", "1", "2", "3", "4", "5", "6", "7", "8", "9"}

\* [A-Za-z_]
IdStart ==
    {"a", "b", "c", "d", "e", "f", "g", "h", "i", "j", "k", "l", "m",
     "n", "o", "p", "q", "r", "s", "t", "u", "v", "w", "x", "y", "z",
     "A", "B", "C", "D", "E", "F", "G", "H", "I", "J", "K", "L", "M",
     "N", "O", "P", "Q", "R", "S", "T", "U", "V", "W", "X", "Y", "Z", "_"}

\* \w
WordChar == IdStart \cup Digit \cup {UWORD}

\* [ \t\r]
SkipChar == {SP, TAB, CR}

\* ==|!=|<=|>=|\+\+|--|->
TwoCharOps ==
    {<<"=", "=">>, <<"!", "=">>, <<"<", "=">>, <<">", "=">>,
     <<"+", "+">>, <<"-", "-">>, <<"-", ">">>}

\* [+\-*/%=<>!]
OneCharOps == {"+", "-", "*", "/", "%", "=", "<", ">", "!"}

\* [()[\]{},;.]
PunctChar == {"(", ")", "[", "]", "{", "}", ",", ";", "."}

KEYWORDS ==
    {<<"i", "f">>, <<"e", "l", "s", "e">>, <<"w", "h", "i", "l", "e">>,
     <<"f", "o", "r">>, <<"r", "e", "t", "u", "r", "n">>, <<"i", "n", "t">>,
     <<"f", "l", "o", "a", "t">>, <<"v", "o", "i", "d">>,
     <<"b", "r", "e", "a", "k">>,
     <<"c", "o", "n", "t", "i", "n", "u", "e">>,
     <<"t", "r", "u", "e">>, <<"f", "a", "l", "s", "e">>}

---------------------------------------------------------------------------
(* The anchored matchers: each gives the end offset of its group's match   *)
(* at offset p of s, or NoMatch.                                           *)

\* `mo is None`, or a group that took no part in the match
NoMatch == -1

\* s[p], guarded: a character outside the text matches nothing
At(s, p) == IF p >= 0 /\ p < Len(s) THEN s[p + 1] ELSE "NONE"

\* s[a:b]
Slice(s, a, b) == SubSeq(s, a + 1, b)

\* the end of the greedy run X* of characters of class cls starting at p
RECURSIVE RunEnd(_, _, _)
RunEnd(s, p, cls) ==
    IF p < Len(s) /\ s[p + 1] \in cls THEN RunEnd(s, p + 1, cls) ELSE p

\* the end of the greedy run [^\n]* starting at p
RECURSIVE LineEnd(_, _)
LineEnd(s, p) ==
    IF p < Len(s) /\ s[p + 1] # LF THEN LineEnd(s, p + 1) ELSE p

\* \d+(?:\.\d+)?
NumberEnd(s, p) ==
    IF At(s, p) \in Digit
    THEN LET e == RunEnd(s, p, Digit)
         IN  IF At(s, e) = "." /\ At(s, e + 1) \in Digit
             THEN RunEnd(s, e + 1, Digit)
             ELSE e
    ELSE NoMatch

\* [A-Za-z_]\w*
IdEnd(s, p) ==
    IF At(s, p) \in IdStart THEN RunEnd(s, p + 1, WordChar) ELSE NoMatch

\* (?:\\.|[^"\\])*" from q on: `.` matches any character but a line feed
RECURSIVE StringBody(_, _)
StringBody(s, q) ==
    IF q >= Len(s) THEN NoMatch
    ELSE IF s[q + 1] = BSLASH
         THEN IF q + 1 < Len(s) /\ s[q + 2] # LF
              THEN StringBody(s, q + 2)
              ELSE NoMatch
    ELSE IF s[q + 1] = QUOTE THEN q + 1
    ELSE StringBody(s, q + 1)

\* "(?:\\.|[^"\\])*"
StringEnd(s, p) ==
    IF At(s, p) = QUOTE THEN StringBody(s, p + 1) ELSE NoMatch

\* [\s\S]*?\*/ from q on: the nearest following */
RECURSIVE BlockClose(_, _)
BlockClose(s, q) ==
    IF q + 1 >= Len(s) THEN NoMatch
    ELSE IF s[q + 1] = "*" /\ s[q + 2] = "/" THEN q + 2
    ELSE BlockClose(s, q + 1)

\* CommentEnd with a block comment that runs to the end of the text when it
\* is never closed
CommentEnd_Unclosed(s, p) ==
    IF At(s, p) = "/" /\ At(s, p + 1) = "/" THEN LineEnd(s, p + 2)
    ELSE IF At(s, p) = "/" /\ At(s, p + 1) = "*"
         THEN IF BlockClose(s, p + 2) = NoMatch THEN Len(s)
              ELSE BlockClose(s, p + 2)
    ELSE NoMatch

\* //[^\n]*|/\*[\s\S]*?\*/
CommentEnd(s, p) ==
    IF At(s, p) = "/" /\ At(s, p + 1) = "/" THEN LineEnd(s, p + 2)
    ELSE IF At(s, p) = "/" /\ At(s, p + 1) = "*" THEN BlockClose(s, p + 2)
    ELSE NoMatch

\* NewlineEnd with the NEWLINE entry left out of the table
NewlineEnd_Missing(s, p) == NoMatch

\* \n
NewlineEnd(s, p) == IF At(s, p) = LF THEN p + 1 ELSE NoMatch

\* [ \t\r]+
SkipEnd(s, p) ==
    IF At(s, p) \in SkipChar THEN RunEnd(s, p, SkipChar) ELSE NoMatch

\* OpEnd with the character class listed before the two-character operators
OpEnd_ClassFirst(s, p) ==
    IF At(s, p) \in OneCharOps THEN p + 1
    ELSE IF p + 1 < Len(s) /\ <<At(s, p), At(s, p + 1)>> \in TwoCharOps
         THEN p + 2
    ELSE NoMatch

\* ==|!=|<=|>=|\+\+|--|->|[+\-*/%=<>!]
OpEnd(s, p) ==
    IF p + 1 < Len(s) /\ <<At(s, p), At(s, p + 1)>> \in TwoCharOps THEN p + 2
    ELSE IF At(s, p) \in OneCharOps THEN p + 1
    ELSE NoMatch

\* [()[\]{},;.]
PunctEnd(s, p) == IF At(s, p) \in PunctChar THEN p + 1 ELSE NoMatch

\* . (any character but a line feed)
MismatchEnd(s, p) == IF p < Len(s) /\ s[p + 1] # LF THEN p + 1 ELSE NoMatch

\* the group names, in the order of the alternation
TOKEN_SPECIFICATION ==
    <<"NUMBER", "ID", "STRING", "COMMENT", "NEWLINE", "SKIP", "OP", "PUNCT",
      "MISMATCH">>

GroupEnd(name, s, p) ==
    CASE name = "NUMBER" -> NumberEnd(s, p)
      [] name = "ID" -> IdEnd(s, p)
      [] name = "STRING" -> StringEnd(s, p)
      [] name = "COMMENT" -> CommentEnd(s, p)
      [] name = "NEWLINE" -> NewlineEnd(s, p)
      [] name = "SKIP" -> SkipEnd(s, p)
      [] name = "OP" -> OpEnd(s, p)
      [] name = "PUNCT" -> PunctEnd(s, p)
      [] name = "MISMATCH" -> MismatchEnd(s, p)

NoMo == [kind |-> "NONE", start |-> NoMatch, end |-> NoMatch]

\* MASTER_PATTERN.match(s, p): the first alternative that matches at p wins
MasterMatch(s, p) ==
    LET hits == {i \in 1..Len(TOKEN_SPECIFICATION) :
                    GroupEnd(TOKEN_SPECIFICATION[i], s, p) # NoMatch}
    IN  IF hits = {} THEN NoMo
        ELSE LET i == CHOOSE j \in hits : \A k \in hits : j <= k
             IN  [kind |-> TOKEN_SPECIFICATION[i], start |-> p,
                  end |-> GroupEnd(TOKEN_SPECIFICATION[i], s, p)]

---------------------------------------------------------------------------
(* tokenize *)

Token(type, text, ln, col) ==
    [type |-> type, value |-> text, line |-> ln, column |-> col]

\* Column counted from 0
Column_ZeroBased(start, ls) == start - ls

\* mo.start() - line_start + 1
Column(start, ls) == start - ls + 1

\* IdType that asks whether the text starts with a keyword
IdType_Prefix(text) ==
    IF \E k \in KEYWORDS :
           Len(k) <= Len(text) /\ SubSeq(text, 1, Len(k)) = k
    THEN "KEYWORD"
    ELSE "IDENT"

\* "KEYWORD" if value in KEYWORDS else "IDENT"
IdType(text) == IF text \in KEYWORDS THEN "KEYWORD" ELSE "IDENT"

\* the type of the token the branch for group `kind` yields
TokenType(kind, text) == IF kind = "ID" THEN IdType(text) ELSE kind

\* Yielding without the PUNCT branch
Yielding_NoPunct == {"ID", "NUMBER", "STRING", "OP"}

\* the groups whose branch yields a token
Yielding == {"ID", "NUMBER", "STRING", "OP", "PUNCT"}

\* the tokens one iteration yields for the match m of s
Yielded(m, s, ln, ls) ==
    IF m.kind \in Yielding
    THEN <<Token(TokenType(m.kind, Slice(s, m.start, m.end)),
                 Slice(s, m.start, m.end), ln, Column(m.start, ls))>>
    ELSE <<>>

\* line after the iteration: only the NEWLINE branch advances it
LineAfter(m, ln) == IF m.kind = "NEWLINE" THEN ln + 1 ELSE ln

\* LineStartAfter that takes the line feed itself as the start of the line
LineStartAfter_AtFeed(m, ls) == IF m.kind = "NEWLINE" THEN m.start ELSE ls

\* line_start after the iteration: only the NEWLINE branch moves it
LineStartAfter(m, ls) == IF m.kind = "NEWLINE" THEN m.end ELSE ls

\* the End of input sentinel
EofToken(p, ln, ls) == Token("EOF", <<>>, ln, Column(p, ls))

\* the SyntaxError of the MISMATCH branch
Error(m, s, ln, ls) ==
    [ch |-> s[m.start + 1], line |-> ln, column |-> Column(m.start, ls)]

NoErr == [ch |-> "NONE", line |-> 0, column |-> 0]

\* list(tokenize(s)) resumed at cursor (p, ln, ls): the tokens yielded up to
\* the EOF sentinel or up to the raise
RECURSIVE ScanFrom(_, _, _, _)
ScanFrom(s, p, ln, ls) ==
    LET m == MasterMatch(s, p)
    IN  IF m = NoMo THEN <<EofToken(p, ln, ls)>>
        ELSE IF m.kind = "MISMATCH" THEN <<>>
        ELSE Yielded(m, s, ln, ls)
                 \o ScanFrom(s, m.end, LineAfter(m, ln), LineStartAfter(m, ls))

\* the tokens of a whole text
Tokenize(s) == ScanFrom(s, 0, 1, 0)

---------------------------------------------------------------------------
(* The inputs: every text of a bounded length over each of six alphabets,   *)
(* and over a seventh for the scans checked under fairness                 *)

MaxLenMixed == 3
MaxLenComment == 5
MaxLenString == 5
MaxLenOp == 3
MaxLenWord == 4
MaxLenLayout == 4
MaxLenFair == 3

AlphaMixed == {"i", "1", ".", QUOTE, "/", "*", LF, SP, "=", "@"}
AlphaComment == {"/", "*", LF, "x"}
AlphaString == {QUOTE, BSLASH, LF, "a", "@"}
AlphaOp == {"=", "!", "<", ">", "+", "-", "/", "*", "%"}
AlphaWord == {"i", "f", "n", "t", "1", "_", UWORD}
AlphaLayout == {"x", LF, SP, CR, TAB}

Texts(alpha, n) == UNION {[1..k -> alpha] : k \in 0..n}

AlphaFair == {"i", "1", ".", QUOTE, "/", "*", LF, SP, "@"}

FairInputs == Texts(AlphaFair, MaxLenFair)

Inputs ==
    Texts(AlphaMixed, MaxLenMixed) \cup Texts(AlphaComment, MaxLenComment)
        \cup Texts(AlphaString, MaxLenString) \cup Texts(AlphaOp, MaxLenOp)
        \cup Texts(AlphaWord, MaxLenWord) \cup Texts(AlphaLayout, MaxLenLayout)

---------------------------------------------------------------------------
(* The scan.  pc is the generator's position: "scan" in the loop, "done"   *)
(* after the EOF yield, "error" after the raise.  starts and log are       *)
(* history: the start offset of each yielded token, and every accepted     *)
(* match [kind, start, end] in order.                                      *)

\* the state at the first pull, for an input of the set texts
InitOn(texts) ==
    /\ code \in texts
    /\ pos = 0
    /\ line = 1
    /\ line_start = 0
    /\ tokens = <<>>
    /\ pc = "scan"
    /\ err = NoErr
    /\ starts = <<>>
    /\ log = <<>>

Init == InitOn(Inputs)

\* the match object of the current iteration
mo == MasterMatch(code, pos)

\* one iteration of the loop whose branch does not raise
Iterate ==
    /\ tokens' = tokens \o Yielded(mo, code, line, line_start)
    /\ starts' = IF mo.kind \in Yielding THEN Append(starts, mo.start)
                 ELSE starts
    /\ line' = LineAfter(mo, line)
    /\ line_start' = LineStartAfter(mo, line_start)
    /\ pos' = mo.end
    /\ log' = Append(log, mo)
    /\ UNCHANGED <<code, pc, err>>

Newline == pc = "scan" /\ mo.kind = "NEWLINE" /\ Iterate

Skip == pc = "scan" /\ mo.kind \in {"SKIP", "COMMENT"} /\ Iterate

Id == pc = "scan" /\ mo.kind = "ID" /\ Iterate

Number == pc = "scan" /\ mo.kind = "NUMBER" /\ Iterate

String == pc = "scan" /\ mo.kind = "STRING" /\ Iterate

Op == pc = "scan" /\ mo.kind = "OP" /\ Iterate

Punct == pc = "scan" /\ mo.kind = "PUNCT" /\ Iterate

Mismatch ==
    /\ pc = "scan"
    /\ mo.kind = "MISMATCH"
    /\ err' = Error(mo, code, line, line_start)
    /\ pc' = "error"
    /\ UNCHANGED <<code, pos, line, line_start, tokens, starts, log>>

Eof ==
    /\ pc = "scan"
    /\ mo = NoMo
    /\ tokens' = Append(tokens, EofToken(pos, line, line_start))
    /\ starts' = Append(starts, pos)
    /\ pc' = "done"
    /\ UNCHANGED <<code, pos, line, line_start, err, log>>

Next ==
    \/ Newline
    \/ Skip
    \/ Id
    \/ Number
    \/ String
    \/ Op
    \/ Punct
    \/ Mismatch
    \/ Eof

Spec == Init /\ [][Next]_vars

\* the scan of the texts of FairInputs, by a consumer that keeps pulling the
\* generator until it is exhausted or raises
InitFair == InitOn(FairInputs)

FairSpec == InitFair /\ [][Next]_vars /\ WF_vars(Next)

---------------------------------------------------------------------------
(* Vocabulary of the properties *)

Toks == 1..Len(tokens)

Matches == 1..Len(log)

\* the texts of the tokens ts, end to end
RECURSIVE ConcatValues(_)
ConcatValues(ts) ==
    IF ts = <<>> THEN <<>> ELSE Head(ts).value \o ConcatValues(Tail(ts))

\* the offsets an accepted NEWLINE, SKIP or COMMENT match covers
Discarded ==
    {q \in 0..(Len(code) - 1) :
        \E i \in Matches :
            /\ log[i].kind \in {"NEWLINE", "SKIP", "COMMENT"}
            /\ log[i].start <= q
            /\ q < log[i].end}

\* code[from:upto] with the discarded offsets deleted
RECURSIVE Kept(_, _)
Kept(from, upto) ==
    IF from >= upto THEN <<>>
    ELSE (IF from \in Discarded THEN <<>> ELSE <<code[from + 1]>>)
             \o Kept(from + 1, upto)

\* only MISMATCH matches at offset p of s: an unrecognized character
Unrecognized(s, p) ==
    /\ p < Len(s)
    /\ s[p + 1] # LF
    /\ \A i \in 1..(Len(TOKEN_SPECIFICATION) - 1) :
           GroupEnd(TOKEN_SPECIFICATION[i], s, p) = NoMatch

\* the line feeds of s before offset p, as the offsets that follow them
FeedsBefore(s, p) == {q \in 1..p : s[q] = LF}

\* the line of offset p of s: 1 + the line feeds before it
LineOf(s, p) == 1 + Cardinality(FeedsBefore(s, p))

\* the offset of the first character of the line of offset p of s
LineStartOf(s, p) ==
    IF FeedsBefore(s, p) = {} THEN 0
    ELSE CHOOSE q \in FeedsBefore(s, p) : \A r \in FeedsBefore(s, p) : r <= q

\* the column of offset p of s, counted from 1
ColumnOf(s, p) == p - LineStartOf(s, p) + 1

\* match i of the log is of kind k and holds a line feed
FeedInside(i, k) ==
    /\ log[i].kind = k
    /\ \E q \in log[i].start..(log[i].end - 1) : code[q + 1] = LF

\* every token yielded so far carries the line and column of its start offset
PositionsTrue ==
    \A i \in Toks :
        /\ tokens[i].line = LineOf(code, starts[i])
        /\ tokens[i].column = ColumnOf(code, starts[i])

---------------------------------------------------------------------------
(* C1 *)

C1_EofShape ==
    /\ pc = "done" =>
          /\ pos = Len(code)
          /\ tokens # <<>>
          /\ tokens[Len(tokens)].type = "EOF"
          /\ tokens[Len(tokens)].value = <<>>
          /\ Cardinality({i \in Toks : tokens[i].type = "EOF"}) = 1
    /\ pc # "done" => \A i \in Toks : tokens[i].type # "EOF"
    /\ pc = "error" => Unrecognized(code, pos)

\* C1: every scan ends, and it ends otherwise than by the EOF yield only with
\* the cursor on an unrecognized character; a scan that meets none yields
\* exactly one EOF token, as its last token, with empty text, and yields it
\* only with pos at the length of the input.
C1_TerminatesWithEof == [](C1_EofShape) /\ <>(pc # "scan")

C1_Witness ==
    /\ pc = "done"
    /\ Len(tokens) >= 3
    /\ \E i \in Matches : log[i].kind = "NEWLINE"

---------------------------------------------------------------------------
(* C2 *)

\* what the scan discards is white space or a comment
C2_DiscardedShape ==
    \A i \in Matches :
        /\ log[i].kind = "SKIP" =>
              \A q \in log[i].start..(log[i].end - 1) : code[q + 1] \in SkipChar
        /\ log[i].kind = "NEWLINE" =>
              log[i].end = log[i].start + 1 /\ code[log[i].start + 1] = LF
        /\ log[i].kind = "COMMENT" =>
              /\ log[i].end >= log[i].start + 2
              /\ code[log[i].start + 1] = "/"
              /\ code[log[i].start + 2] \in {"/", "*"}

\* C2 as stated: for every input, when the scan has ended, the texts of the
\* tokens, end to end, are the whole input with the white space and comment
\* matches deleted.
C2_RoundTripEveryInput ==
    pc # "scan" => ConcatValues(tokens) = Kept(0, Len(code))

\* C2 amended: the texts of the tokens yielded so far, end to end, are the
\* input before the cursor with the white space and comment matches deleted;
\* that is the whole input when the scan ends with EOF, and the prefix before
\* the unrecognized character when it ends with the error.
C2_RoundTripScanned ==
    /\ ConcatValues(tokens) = Kept(0, pos)
    /\ pc = "done" => pos = Len(code)
    /\ C2_DiscardedShape

C2_Witness ==
    /\ pc = "done"
    /\ \E i \in Matches : log[i].kind = "COMMENT"
    /\ \E i \in Matches : log[i].kind = "NEWLINE"
    /\ Len(tokens) >= 3

---------------------------------------------------------------------------
(* C3 *)

\* what C3 says of the error apart from the place it reports
C3_ErrorShape ==
    pc = "error" =>
        /\ Unrecognized(code, pos)
        /\ \A i \in Matches : ~Unrecognized(code, log[i].start)
        /\ err.ch = code[pos + 1]
        /\ err.line = line
        /\ err.column = pos - line_start + 1
        /\ Tokenize(Slice(code, 0, pos))
               = Append(tokens, EofToken(pos, line, line_start))
        /\ \A i \in Toks : tokens[i].type # "EOF"
        /\ ~ENABLED Next

\* C3: the error carries the unrecognized character, the current line and
\* column = match_start - line_start + 1; the tokens yielded before it are
\* those of the input prefix before that character; nothing is yielded after
\* it, no EOF; and the line and column reported are those of the first
\* unrecognized character in the input.
C3_ErrorAtFirstUnrecognized ==
    /\ C3_ErrorShape
    /\ pc = "error" =>
          /\ err.line = LineOf(code, pos)
          /\ err.column = ColumnOf(code, pos)

---------------------------------------------------------------------------
(* C4 *)

\* C4: line feeds inside a COMMENT match advance line and line_start, so
\* that (no string holding a line feed) every token, EOF included, carries
\* line = 1 + the line feeds before its start offset, and the column counted
\* from the character after the last of them.
C4_CommentFeedsCounted ==
    (\A i \in Matches : ~FeedInside(i, "STRING")) => PositionsTrue

---------------------------------------------------------------------------
(* C5 *)

\* C5: as long as no COMMENT or STRING match holds a line feed, every token,
\* EOF included, carries line = 1 + the line feeds before its start offset and
\* column = start offset - offset of the first character of that line + 1.
C5_PositionsWithoutInnerFeeds ==
    (\A i \in Matches : ~FeedInside(i, "STRING") /\ ~FeedInside(i, "COMMENT"))
        => PositionsTrue

\* a token at column 1 of line 2, right after the line feed that ends a
\* // comment
C5_Witness ==
    /\ pc = "done"
    /\ \E i \in Matches :
           /\ i + 1 \in Matches
           /\ log[i].kind = "COMMENT"
           /\ log[i + 1].kind = "NEWLINE"
           /\ \E j \in Toks :
                  /\ starts[j] = log[i + 1].end
                  /\ tokens[j].type = "IDENT"
                  /\ tokens[j].line = 2
                  /\ tokens[j].column = 1

---------------------------------------------------------------------------
(* C6 *)

\* a letter or underscore followed by letters, digits and underscores
IdentShape(text) ==
    /\ text # <<>>
    /\ text[1] \in IdStart
    /\ \A k \in 2..Len(text) : text[k] \in WordChar

\* C6: a token whose text has identifier shape is a KEYWORD if its whole
\* text is in the keyword set and an IDENT if not, and it is the whole
\* identifier: the character after it is no word character, so that a word
\* that starts with a keyword is one IDENT and not a KEYWORD and a rest.
C6_KeywordIffExactText ==
    \A i \in Toks :
        IdentShape(tokens[i].value) =>
            /\ tokens[i].type \in {"KEYWORD", "IDENT"}
            /\ tokens[i].type = "KEYWORD" <=> tokens[i].value \in KEYWORDS
            /\ At(code, starts[i] + Len(tokens[i].value)) \notin WordChar
            /\ starts[i] > 0 /\ At(code, starts[i] - 1) \in WordChar =>
                  i > 1 /\ tokens[i - 1].type = "NUMBER"
                        /\ starts[i - 1] + Len(tokens[i - 1].value) = starts[i]

\* int1 scanned to the end: one IDENT, then EOF
C6_Witness ==
    /\ pc = "done"
    /\ code = <<"i", "n", "t", "1">>
    /\ Len(tokens) = 2
    /\ tokens[1].type = "IDENT"
    /\ tokens[1].value = code

---------------------------------------------------------------------------
(* C7 *)

\* the two-character operators C7 lists
C7_Operators ==
    {<<"=", "=">>, <<"!", "=">>, <<"<", "=">>, <<">", "=">>,
     <<"+", "+">>, <<"-", "-">>, <<"-", ">">>}

\* one of them begins at offset p of s
C7_BeginsAt(s, p) ==
    p + 1 < Len(s) /\ <<s[p + 1], s[p + 2]>> \in C7_Operators

\* C7: a match accepted with the cursor where a two-character operator
\* begins is that operator, yielded as one OP token; the scan neither raises
\* nor ends there; and a one-character OP token never starts where a
\* two-character operator begins.
C7_TwoCharOperatorFirst ==
    /\ \A i \in Matches :
           C7_BeginsAt(code, log[i].start) =>
               /\ log[i].kind = "OP"
               /\ log[i].end = log[i].start + 2
               /\ \E j \in Toks :
                      /\ starts[j] = log[i].start
                      /\ tokens[j].type = "OP"
                      /\ tokens[j].value
                             = <<code[starts[j] + 1], code[starts[j] + 2]>>
    /\ pc # "scan" => ~C7_BeginsAt(code, pos)
    /\ \A j \in Toks :
           tokens[j].type = "OP" /\ Len(tokens[j].value) = 1 =>
               ~C7_BeginsAt(code, starts[j])

\* -> scanned to the end: one OP token, then EOF
C7_Witness ==
    /\ pc = "done"
    /\ code = <<"-", ">">>
    /\ Len(tokens) = 2
    /\ tokens[1].type = "OP"
    /\ tokens[1].value = code

---------------------------------------------------------------------------
(* C8 *)

\* the end of the string literal C8 describes, from q on: units of a
\* backslash and ANY character, or of a character other than quote and
\* backslash, up to the closing quote
RECURSIVE C8_Body(_, _)
C8_Body(s, q) ==
    IF q >= Len(s) THEN NoMatch
    ELSE IF s[q + 1] = BSLASH
         THEN IF q + 1 < Len(s) THEN C8_Body(s, q + 2) ELSE NoMatch
    ELSE IF s[q + 1] = QUOTE THEN q + 1
    ELSE C8_Body(s, q + 1)

C8_LiteralEnd(s, p) ==
    IF At(s, p) = QUOTE THEN C8_Body(s, p + 1) ELSE NoMatch

\* C8: with the cursor on such a literal the scan does not raise, and the
\* match it accepts there is the whole literal, yielded verbatim as one STRING
\* token.
C8_StringLiteralWhole ==
    /\ pc = "error" => C8_LiteralEnd(code, pos) = NoMatch
    /\ \A i \in Matches :
           C8_LiteralEnd(code, log[i].start) # NoMatch =>
               /\ log[i].kind = "STRING"
               /\ log[i].end = C8_LiteralEnd(code, log[i].start)
               /\ \E j \in Toks :
                      /\ starts[j] = log[i].start
                      /\ tokens[j].type = "STRING"
                      /\ tokens[j].value
                             = Slice(code, log[i].start, log[i].end)

---------------------------------------------------------------------------
(* C9 *)

\* (line, column) of token a is before that of token b
PositionBefore(a, b) ==
    a.line < b.line \/ (a.line = b.line /\ a.column < b.column)

C9_Cursor ==
    /\ 0 <= line_start
    /\ line_start <= pos
    /\ pos <= Len(code)
    /\ line >= 1
    /\ \A i \in Toks : tokens[i].line >= 1 /\ tokens[i].column >= 1
    /\ pc = "error" => err.line >= 1 /\ err.column >= 1
    /\ \A i \in Toks : i + 1 \in Toks => PositionBefore(tokens[i], tokens[i + 1])

C9_Step ==
    /\ log' # log => pos' > pos
    /\ pos' >= pos
    /\ line' >= line
    /\ line_start' >= line_start

\* C9: 0 <= line_start <= pos <= len(input) and line >= 1 throughout; pos
\* grows with every accepted match and line and line_start never shrink;
\* every token and every error has line >= 1 and column >= 1; and the (line,
\* column) of the tokens, EOF included, grow strictly in lexicographic order.
C9_CursorMonotone == [](C9_Cursor) /\ [][C9_Step]_vars

C9_Witness ==
    /\ pc = "done"
    /\ Len(tokens) >= 3
    /\ line >= 2
    /\ 0 < line_start
    /\ line_start < pos

---------------------------------------------------------------------------
(* C10 *)

\* */ at offset q of s
ClosesAt(s, q) == q + 1 < Len(s) /\ s[q + 1] = "*" /\ s[q + 2] = "/"

\* /* at offset p of s with no */ after it
UnclosedAt(s, p) ==
    /\ p + 1 < Len(s)
    /\ s[p + 1] = "/"
    /\ s[p + 2] = "*"
    /\ \A q \in (p + 2)..(Len(s) - 2) : ~ClosesAt(s, q)

\* token j is the one-character operator c at offset p
OneCharOpAt(j, c, p) ==
    /\ tokens[j].type = "OP"
    /\ tokens[j].value = <<c>>
    /\ starts[j] = p

\* C10: a match accepted with the cursor on a /* that nothing closes is the
\* OP / and the next is the OP *, both yielded as tokens; the scan neither
\* raises nor ends on either, and raises only on an unrecognized character;
\* and a COMMENT match starts with // or with a /* that has a later */, and
\* then ends with the nearest one.
C10_UnclosedCommentIsOperators ==
    /\ \A i \in Matches :
           UnclosedAt(code, log[i].start) =>
               /\ log[i].kind = "OP" /\ log[i].end = log[i].start + 1
               /\ \E j \in Toks : OneCharOpAt(j, "/", log[i].start)
               /\ i = Len(log) => pc = "scan"
               /\ i < Len(log) =>
                     /\ log[i + 1].kind = "OP"
                     /\ log[i + 1].end = log[i].start + 2
                     /\ \E j \in Toks : OneCharOpAt(j, "*", log[i].start + 1)
    /\ pc # "scan" => ~UnclosedAt(code, pos)
    /\ pc = "error" => Unrecognized(code, pos)
    /\ \A i \in Matches :
           log[i].kind = "COMMENT" =>
               /\ code[log[i].start + 1] = "/"
               /\ \/ code[log[i].start + 2] = "/"
                  \/ /\ code[log[i].start + 2] = "*"
                     /\ log[i].end >= log[i].start + 4
                     /\ ClosesAt(code, log[i].end - 2)
                     /\ \A q \in (log[i].start + 2)..(log[i].end - 3) :
                            ~ClosesAt(code, q)

\* /*x scanned to the end: OP /, OP *, IDENT x, EOF
C10_Witness ==
    /\ pc = "done"
    /\ code = <<"/", "*", "x">>
    /\ Len(tokens) = 4
    /\ OneCharOpAt(1, "/", 0)
    /\ OneCharOpAt(2, "*", 1)
    /\ tokens[3].type = "IDENT"

====
